---------------------------- MODULE Spec2Model ----------------------------
(***************************************************************************)
(* Model of gpu-alloc-vulkanalia (src/src/lib.rs): the MemoryDevice        *)
(* adapter over a Vulkan device (allocate / deallocate / map / unmap /     *)
(* invalidate / flush), the capability probe device_properties, and the    *)
(* two MemoryPropertyFlags conversions.                                    *)
(*                                                                         *)
(* Every public function of the crate is one action.  An action takes the  *)
(* function's arguments and the answers of the Vulkan calls it makes as    *)
(* inputs, and leaves in the state                                         *)
(*   op     - the function that ran,                                       *)
(*   args   - its arguments and the driver's answers,                      *)
(*   calls  - the Vulkan calls it issued, in order,                        *)
(*   result - what it returned: Ok / Err / a panic,                        *)
(*   scan   - the trace of the extension scan of device_properties.        *)
(*                                                                         *)
(* Representation.  Bit-flag values are the integers of their bits.  A u64 *)
(* is a tuple of four 16-bit limbs, most significant first, so that        *)
(* u64::MAX and 4 GiB are the real values.  Option<T> is <<>> for None and *)
(* <<x>> for Some(x).                                                      *)
(***************************************************************************)
EXTENDS Integers, Sequences, FiniteSets, TLC

VARIABLES op, args, calls, result, scan

vars == <<op, args, calls, result, scan>>

(***************************************************************************)
(* Bounds of the model.                                                    *)
(***************************************************************************)
\* longest list of device extensions the driver enumerates
MaxExts == 4
\* most memory heaps / memory types in a memory-properties report
MaxHeaps == 2
MaxTypes == 3
\* most ranges in one flush / invalidate batch
MaxRanges == 2
\* number of low bits of vk::MemoryPropertyFlags the inputs range over
VkPropBits == 7
\* number of low bits of the u8 of AllocationFlags the inputs range over
AllocFlagBits == 3
\* highest minor number of the negotiated versions
MaxMinor == 3

(***************************************************************************)
(* Bit operations on flag values.                                          *)
(***************************************************************************)
RECURSIVE BitAnd(_, _)
BitAnd(a, b) ==
    IF a = 0 \/ b = 0 THEN 0
    ELSE (IF a % 2 = 1 /\ b % 2 = 1 THEN 1 ELSE 0) + 2 * BitAnd(a \div 2, b \div 2)

RECURSIVE BitOr(_, _)
BitOr(a, b) ==
    IF a = 0 THEN b
    ELSE IF b = 0 THEN a
    ELSE (IF a % 2 = 1 \/ b % 2 = 1 THEN 1 ELSE 0) + 2 * BitOr(a \div 2, b \div 2)

\* bitflags `contains`: every bit of `flag` is set in `bits`
Contains(bits, flag) == BitAnd(bits, flag) = flag

(***************************************************************************)
(* u64 values.                                                             *)
(***************************************************************************)
U64(n) == <<0, 0, n \div 65536, n % 65536>>

\* u64::MAX, the default of ExtInfo::max_memory_allocation_size
U64_MAX == <<65535, 65535, 65535, 65535>>

MiB256 == U64(268435456)
GiB4 == <<0, 1, 0, 0>>

(***************************************************************************)
(* Results.                                                                *)
(***************************************************************************)
Ok(v) == [status |-> "Ok", value |-> v]
Err(e) == [status |-> "Err", value |-> e]
Panic(msg) == [status |-> "panic", value |-> msg]

\* a call issued to the Vulkan device or instance
Call(name, chain, params) == [call |-> name, chain |-> chain, params |-> params]

NoScan == [enumerated |-> FALSE]

\* vk::ErrorCode values the driver may answer with
ErrorCodes ==
    {"OUT_OF_HOST_MEMORY", "OUT_OF_DEVICE_MEMORY", "INITIALIZATION_FAILED",
     "DEVICE_LOST", "MEMORY_MAP_FAILED", "LAYER_NOT_PRESENT",
     "INVALID_EXTERNAL_HANDLE", "INVALID_OPAQUE_CAPTURE_ADDRESS"}

DeviceErr(code) == [code |-> code, value |-> 0]
DeviceOk(v) == [code |-> "SUCCESS", value |-> v]

(***************************************************************************)
(* AllocationFlags (gpu_alloc_types): a u8 bit set whose only defined flag *)
(* is DEVICE_ADDRESS.  A value may still carry other bits of the u8.       *)
(***************************************************************************)
DEVICE_ADDRESS == 1

\* every defined flag of AllocationFlags
AllocationFlagsAll == DEVICE_ADDRESS

\* `!flags` on a bitflags type: the complement, truncated to the defined flags
FlagsNot(flags) == BitAnd(255 - flags, AllocationFlagsAll)

\* the assert! of allocate_memory: (flags & !DEVICE_ADDRESS).is_empty()
AllocateFlagsAccepted(flags) == BitAnd(flags, FlagsNot(DEVICE_ADDRESS)) = 0

\* the vk::MemoryAllocateInfo built for the request: pNext chain of the info
AllocateChain(flags) ==
    IF Contains(flags, DEVICE_ADDRESS) THEN {"MemoryAllocateFlagsInfo"} ELSE {}

(***************************************************************************)
(* Translation of the driver's answers.                                    *)
(***************************************************************************)
OutOfMemoryOf(r) ==
    CASE r.code = "OUT_OF_DEVICE_MEMORY" ->
           Err([type |-> "OutOfMemory", variant |-> "OutOfDeviceMemory"])
      [] r.code = "OUT_OF_HOST_MEMORY" ->
           Err([type |-> "OutOfMemory", variant |-> "OutOfHostMemory"])
      [] OTHER -> Panic("Unexpected Vulkan error")

AllocateResultSwapped(r) ==
    CASE r.code = "SUCCESS" -> Ok(r.value)
      [] r.code = "OUT_OF_DEVICE_MEMORY" ->
           Err([type |-> "OutOfMemory", variant |-> "OutOfHostMemory"])
      [] r.code = "OUT_OF_HOST_MEMORY" ->
           Err([type |-> "OutOfMemory", variant |-> "OutOfHostMemory"])
      [] OTHER -> Panic("Unexpected Vulkan error")

AllocateResult(r) ==
    IF r.code = "SUCCESS" THEN Ok(r.value) ELSE OutOfMemoryOf(r)

MapResult(r) ==
    CASE r.code = "SUCCESS" ->
           IF r.value = 0
           THEN Panic("Pointer to memory mapping must not be null")
           ELSE Ok(r.value)
      [] r.code = "OUT_OF_DEVICE_MEMORY" ->
           Err([type |-> "DeviceMapError", variant |-> "OutOfDeviceMemory"])
      [] r.code = "OUT_OF_HOST_MEMORY" ->
           Err([type |-> "DeviceMapError", variant |-> "OutOfHostMemory"])
      [] r.code = "MEMORY_MAP_FAILED" ->
           Err([type |-> "DeviceMapError", variant |-> "MapFailed"])
      [] OTHER -> Panic("Unexpected Vulkan error")

InvalidateResult(r) ==
    IF r.code = "SUCCESS" THEN Ok(<<>>) ELSE OutOfMemoryOf(r)

FlushResult(r) ==
    IF r.code = "SUCCESS" THEN Ok(<<>>) ELSE OutOfMemoryOf(r)

\* the vk::MappedMemoryRange built from each range of the batch, in order
VkRanges(ranges) ==
    [i \in 1..Len(ranges) |->
        [memory |-> ranges[i].memory, offset |-> ranges[i].offset,
         size |-> ranges[i].size]]

(***************************************************************************)
(* Inputs of the adapter's operations.                                     *)
(***************************************************************************)
MemoryHandles == {1, 2}
AllocationSizes == {U64(64), GiB4}
MemoryTypeIndices == {0, 1}
\* the low bits of the u8: the empty set, DEVICE_ADDRESS, and values that
\* carry undefined bits (AllocationFlags::from_bits_retain)
AllocationFlagValues == 0..(2^AllocFlagBits - 1)
\* answers to vkMapMemory: the null pointer or a mapping
MappedPointers == {0, 4096}

SeqsUpTo(S, n) == UNION {[1..k -> S] : k \in 0..n}

RangeValues ==
    {[memory |-> 1, offset |-> U64(0), size |-> U64(64)],
     [memory |-> 2, offset |-> U64(64), size |-> U64_MAX]}

AllocateAnswers == {DeviceOk(h) : h \in MemoryHandles} \cup {DeviceErr(c) : c \in ErrorCodes}
MapAnswers == {DeviceOk(p) : p \in MappedPointers} \cup {DeviceErr(c) : c \in ErrorCodes}
UnitAnswers == {DeviceOk(0)} \cup {DeviceErr(c) : c \in ErrorCodes}

(***************************************************************************)
(* The MemoryDevice operations.                                            *)
(***************************************************************************)
allocate_memory(size, memory_type, flags, answer) ==
    /\ op = "none"
    /\ op' = "allocate_memory"
    /\ args' = [size |-> size, memory_type |-> memory_type, flags |-> flags,
                device_result |-> answer]
    /\ scan' = NoScan
    /\ IF ~AllocateFlagsAccepted(flags)
       THEN /\ calls' = <<>>
            /\ result' = Panic("assertion failed")
       ELSE /\ calls' = <<Call("allocate_memory", AllocateChain(flags),
                               [allocation_size |-> size,
                                memory_type_index |-> memory_type])>>
            /\ result' = AllocateResult(answer)

deallocate_memory(memory) ==
    /\ op = "none"
    /\ op' = "deallocate_memory"
    /\ args' = [memory |-> memory]
    /\ scan' = NoScan
    /\ calls' = <<Call("free_memory", {}, [memory |-> memory])>>
    /\ result' = Ok(<<>>)

map_memory(memory, offset, size, answer) ==
    /\ op = "none"
    /\ op' = "map_memory"
    /\ args' = [memory |-> memory, offset |-> offset, size |-> size,
                device_result |-> answer]
    /\ scan' = NoScan
    /\ calls' = <<Call("map_memory", {},
                       [memory |-> memory, offset |-> offset, size |-> size,
                        flags |-> 0])>>
    /\ result' = MapResult(answer)

unmap_memory(memory) ==
    /\ op = "none"
    /\ op' = "unmap_memory"
    /\ args' = [memory |-> memory]
    /\ scan' = NoScan
    /\ calls' = <<Call("unmap_memory", {}, [memory |-> memory])>>
    /\ result' = Ok(<<>>)

invalidate_memory_ranges(ranges, answer) ==
    /\ op = "none"
    /\ op' = "invalidate_memory_ranges"
    /\ args' = [ranges |-> ranges, device_result |-> answer]
    /\ scan' = NoScan
    /\ calls' = <<Call("invalidate_mapped_memory_ranges", {}, VkRanges(ranges))>>
    /\ result' = InvalidateResult(answer)

flush_memory_ranges(ranges, answer) ==
    /\ op = "none"
    /\ op' = "flush_memory_ranges"
    /\ args' = [ranges |-> ranges, device_result |-> answer]
    /\ scan' = NoScan
    /\ calls' = <<Call("flush_mapped_memory_ranges", {}, VkRanges(ranges))>>
    /\ result' = FlushResult(answer)

(***************************************************************************)
(* MemoryPropertyFlags: vk::MemoryPropertyFlags (VK_ prefix here) and the  *)
(* gpu_alloc_types flags of the same names.                                *)
(***************************************************************************)
VK_DEVICE_LOCAL == 1
VK_HOST_VISIBLE == 2
VK_HOST_COHERENT == 4
VK_HOST_CACHED == 8
VK_LAZILY_ALLOCATED == 16

DEVICE_LOCAL == 1
HOST_VISIBLE == 2
HOST_COHERENT == 4
HOST_CACHED == 8
LAZILY_ALLOCATED == 16

\* `if props.contains(flag) { result |= mapped }`
OrIf(acc, props, flag, mapped) ==
    IF Contains(props, flag) THEN BitOr(acc, mapped) ELSE acc

memory_properties_from_swapped(props) ==
    LET r1 == OrIf(0, props, VK_DEVICE_LOCAL, DEVICE_LOCAL)
        r2 == OrIf(r1, props, VK_HOST_VISIBLE, HOST_VISIBLE)
        r3 == OrIf(r2, props, VK_HOST_COHERENT, HOST_CACHED)
        r4 == OrIf(r3, props, VK_HOST_CACHED, HOST_COHERENT)
    IN  OrIf(r4, props, VK_LAZILY_ALLOCATED, LAZILY_ALLOCATED)

memory_properties_from(props) ==
    LET r1 == OrIf(0, props, VK_DEVICE_LOCAL, DEVICE_LOCAL)
        r2 == OrIf(r1, props, VK_HOST_VISIBLE, HOST_VISIBLE)
        r3 == OrIf(r2, props, VK_HOST_COHERENT, HOST_COHERENT)
        r4 == OrIf(r3, props, VK_HOST_CACHED, HOST_CACHED)
    IN  OrIf(r4, props, VK_LAZILY_ALLOCATED, LAZILY_ALLOCATED)

memory_properties_to(props) ==
    LET r1 == OrIf(0, props, DEVICE_LOCAL, VK_DEVICE_LOCAL)
        r2 == OrIf(r1, props, HOST_VISIBLE, VK_HOST_VISIBLE)
        r3 == OrIf(r2, props, HOST_COHERENT, VK_HOST_COHERENT)
        r4 == OrIf(r3, props, HOST_CACHED, VK_HOST_CACHED)
    IN  OrIf(r4, props, LAZILY_ALLOCATED, VK_LAZILY_ALLOCATED)

Ret(v) == [status |-> "Ret", value |-> v]

\* vk::MemoryPropertyFlags inputs: every combination of the low VkPropBits bits
VkPropertyFlagValues == 0..(2^VkPropBits - 1)
\* gpu_alloc_types::MemoryPropertyFlags is a u8
PropertyFlagValues == 0..(2^8 - 1)

MemoryPropertiesFrom(props) ==
    /\ op = "none"
    /\ op' = "memory_properties_from"
    /\ args' = [props |-> props]
    /\ scan' = NoScan
    /\ calls' = <<>>
    /\ result' = Ret(memory_properties_from(props))

MemoryPropertiesTo(props) ==
    /\ op = "none"
    /\ op' = "memory_properties_to"
    /\ args' = [props |-> props]
    /\ scan' = NoScan
    /\ calls' = <<>>
    /\ result' = Ret(memory_properties_to(props))

(***************************************************************************)
(* device_properties: the version, the required extensions, the scan.      *)
(***************************************************************************)
\* vk::make_version and vk::version_minor: major << 22 | minor << 12 | patch
MakeVersion(major, minor, patch) == major * 2^22 + minor * 2^12 + patch
version_minor(version) == (version \div 2^12) % 2^10

PROPS2 == "VK_KHR_get_physical_device_properties2"
MAINTENANCE3 == "VK_KHR_maintenance3"
BDA == "VK_KHR_buffer_device_address"

None == <<>>
Some(x) == <<x>>
is_some(o) == o # None
is_none(o) == o = None

RequiredExtensionsKeepBda(version) ==
    LET minor == version_minor(version)
    IN  CASE minor = 0 -> <<Some(PROPS2), Some(MAINTENANCE3), Some(BDA)>>
          [] OTHER -> <<None, None, Some(BDA)>>

\* required_extensions after the match on the minor version
RequiredExtensions(version) ==
    LET minor == version_minor(version)
    IN  CASE minor = 0 -> <<Some(PROPS2), Some(MAINTENANCE3), Some(BDA)>>
          [] minor = 1 -> <<None, None, Some(BDA)>>
          [] OTHER -> <<None, None, None>>

Min(S) == CHOOSE x \in S : \A y \in S : x <= y

(* The state of the scan.  required and to_find are the code's variables.
   The rest is its trace: examined, the indices of the entries for which the
   loop over the required names ran; compared, the required names an entry
   was compared with; matched_at, per slot the index of the entry that
   matched it (0: none). *)
ScanStart(required) ==
    [required |-> required, to_find |-> Len(required), examined |-> {},
     compared |-> {}, matched_at |-> [j \in 1..Len(required) |-> 0]]

\* the body of the loop over the required names, for entry i
ScanEntry(st, i, extension) ==
    LET somes == {j \in 1..Len(st.required) : is_some(st.required[j])}
        hits == {j \in somes : st.required[j][1] = extension}
        hit == IF hits = {} THEN 0 ELSE Min(hits)
        tried == {j \in somes : hit = 0 \/ j <= hit}
    IN  [required |-> IF hit = 0 THEN st.required
                      ELSE [st.required EXCEPT ![hit] = None],
         to_find |-> IF hit = 0 THEN st.to_find ELSE st.to_find - 1,
         examined |-> st.examined \cup {i},
         compared |-> st.compared \cup {st.required[j][1] : j \in tried},
         matched_at |-> IF hit = 0 THEN st.matched_at
                        ELSE [st.matched_at EXCEPT ![hit] = i]]

\* 'extensions: for extension in extensions { if to_find == 0 { break } ... }
RECURSIVE ScanFrom(_, _, _)
ScanFrom(st, extensions, i) ==
    IF i > Len(extensions) THEN st
    ELSE IF st.to_find = 0 THEN st
    ELSE ScanFrom(ScanEntry(st, i, extensions[i]), extensions, i + 1)

QueryFlagsBdaOnly(required) ==
    [query_props |-> is_none(required[1]) /\ is_none(required[2]),
     query_features |-> is_none(required[3])]

\* (props2_ext.is_none() && limits_ext.is_none(),
\*  props2_ext.is_none() && bda_ext.is_none())
QueryFlags(required) ==
    [query_props |-> is_none(required[1]) /\ is_none(required[2]),
     query_features |-> is_none(required[1]) /\ is_none(required[3])]


(***************************************************************************)
(* The physical device: what the instance's queries answer.                *)
(***************************************************************************)
\* lengths of the fixed arrays of vk::PhysicalDeviceMemoryProperties
VK_MAX_MEMORY_TYPES == 32
VK_MAX_MEMORY_HEAPS == 16

PadTo(s, n, fill) == [i \in 1..n |-> IF i <= Len(s) THEN s[i] ELSE fill]

\* vk::PhysicalDeviceMemoryProperties: counts and zero-padded fixed arrays
MemoryReport(types, heaps) ==
    [memory_type_count |-> Len(types),
     memory_types |-> PadTo(types, VK_MAX_MEMORY_TYPES,
                            [property_flags |-> 0, heap_index |-> 0]),
     memory_heap_count |-> Len(heaps),
     memory_heaps |-> PadTo(heaps, VK_MAX_MEMORY_HEAPS, [size |-> U64(0)])]

VkType(flags, heap) == [property_flags |-> flags, heap_index |-> heap]

\* the report of the end-to-end example: heaps of 256 MiB and 4 GiB, types
\* {device-local}, {host-visible, host-coherent},
\* {host-visible, host-cached, device-local}
EndToEndReport ==
    MemoryReport(<<VkType(VK_DEVICE_LOCAL, 0),
                   VkType(VK_HOST_VISIBLE + VK_HOST_COHERENT, 1),
                   VkType(VK_HOST_VISIBLE + VK_HOST_CACHED + VK_DEVICE_LOCAL, 1)>>,
                 <<[size |-> MiB256], [size |-> GiB4]>>)

\* heap sizes by position, all different
HeapSizes == <<MiB256, GiB4, U64(65536), U64(4096), U64(1024)>>

\* flag sets of the sampled memory types; 33 carries the PROTECTED bit (32),
\* which the record's flags do not know
SampleTypeFlags == {VK_HOST_VISIBLE + VK_HOST_COHERENT, VK_DEVICE_LOCAL + 32}

\* the reports a driver may give within the bounds: at least one heap and one
\* type, every heap index below the heap count (the Vulkan specification's
\* guarantee for vkGetPhysicalDeviceMemoryProperties)
MemoryReports ==
    {EndToEndReport} \cup
    UNION {
      {MemoryReport(types, [i \in 1..h |-> [size |-> HeapSizes[i]]]) :
         types \in UNION {[1..k -> {VkType(f, x) : f \in SampleTypeFlags, x \in 0..(h - 1)}] :
                          k \in 1..MaxTypes}} :
      h \in 1..MaxHeaps}

ExtensionNames ==
    {PROPS2, MAINTENANCE3, BDA, "VK_KHR_swapchain", "VK_EXT_memory_budget"}

\* the lists vkEnumerateDeviceExtensionProperties may give: no name twice
ExtensionLists ==
    {s \in SeqsUpTo(ExtensionNames, MaxExts) :
        \A i, j \in 1..Len(s) : i # j => s[i] # s[j]}

LimitsValues ==
    {[max_memory_allocation_count |-> 4096, non_coherent_atom_size |-> U64(64)],
     [max_memory_allocation_count |-> 1000000, non_coherent_atom_size |-> U64(256)]}

\* PhysicalDeviceMaintenance3Properties::max_memory_allocation_size
Maintenance3Values == {U64(1073741824), GiB4}

\* vk::Bool32 of PhysicalDeviceBufferDeviceAddressFeatures
Bool32Values == {0, 1}

Device(extensions, bda, limits, m3, memory) ==
    [extensions |-> extensions, buffer_device_address |-> bda, limits |-> limits,
     max_memory_allocation_size |-> m3, memory_properties |-> memory]

\* devices that differ in extensions, features and limits
ProbeDevices ==
    {Device(e, b, l, m, EndToEndReport) :
        e \in ExtensionLists, b \in Bool32Values, l \in LimitsValues,
        m \in Maintenance3Values}

\* devices that differ in the memory-properties report
MemoryDevices ==
    {Device(<<BDA, MAINTENANCE3, PROPS2>>, 1,
            [max_memory_allocation_count |-> 4096, non_coherent_atom_size |-> U64(64)],
            GiB4, r) : r \in MemoryReports}

Devices == ProbeDevices \cup MemoryDevices

Versions == {MakeVersion(1, m, 0) : m \in 0..MaxMinor} \cup {MakeVersion(1, 1, 268)}

\* answers of enumerate_device_extension_properties: the list, or an error
EnumerateAnswers == {"SUCCESS", "OUT_OF_HOST_MEMORY", "LAYER_NOT_PRESENT"}

(***************************************************************************)
(* device_properties: the queries and the record.                          *)
(***************************************************************************)
PropertiesQueryNoDefault(dev, query_props) ==
    IF query_props
    THEN [call |-> Call("get_physical_device_properties2",
                        {"PhysicalDeviceMaintenance3Properties"}, <<>>),
          limits |-> dev.limits,
          max_memory_allocation_size |-> dev.max_memory_allocation_size]
    ELSE [call |-> Call("get_physical_device_properties", {}, <<>>),
          limits |-> dev.limits,
          max_memory_allocation_size |-> dev.max_memory_allocation_size]

FeaturesQueryAlwaysOn(dev, query_features) ==
    IF query_features
    THEN [calls |-> <<Call("get_physical_device_features2",
                           {"PhysicalDeviceBufferDeviceAddressFeatures"}, <<>>)>>,
          buffer_device_address |-> TRUE]
    ELSE [calls |-> <<>>, buffer_device_address |-> FALSE]

\* `let limits = if query_props { ... } else { ... }` with ext_info's size
PropertiesQuery(dev, query_props) ==
    IF query_props
    THEN [call |-> Call("get_physical_device_properties2",
                        {"PhysicalDeviceMaintenance3Properties"}, <<>>),
          limits |-> dev.limits,
          max_memory_allocation_size |-> dev.max_memory_allocation_size]
    ELSE [call |-> Call("get_physical_device_properties", {}, <<>>),
          limits |-> dev.limits,
          max_memory_allocation_size |-> U64_MAX]

\* `if query_features { ... }` with ext_info's buffer_device_address
FeaturesQuery(dev, query_features) ==
    IF query_features
    THEN [calls |-> <<Call("get_physical_device_features2",
                           {"PhysicalDeviceBufferDeviceAddressFeatures"}, <<>>)>>,
          buffer_device_address |-> dev.buffer_device_address # 0]
    ELSE [calls |-> <<>>, buffer_device_address |-> FALSE]

MemoryTypesShifted(mp) ==
    [i \in 1..mp.memory_type_count |->
        [props |-> memory_properties_from(mp.memory_types[i].property_flags),
         heap |-> mp.memory_types[i].heap_index + 1]]

\* memory_types[..memory_type_count].iter().map(...).collect()
MemoryTypes(mp) ==
    [i \in 1..mp.memory_type_count |->
        [props |-> memory_properties_from(mp.memory_types[i].property_flags),
         heap |-> mp.memory_types[i].heap_index]]

\* memory_heaps[..memory_heap_count].iter().map(...).collect()
MemoryHeaps(mp) ==
    [i \in 1..mp.memory_heap_count |-> [size |-> mp.memory_heaps[i].size]]

DeviceProperties(mp, props, features) ==
    [memory_types |-> MemoryTypes(mp),
     memory_heaps |-> MemoryHeaps(mp),
     max_memory_allocation_count |-> props.limits.max_memory_allocation_count,
     max_memory_allocation_size |-> props.max_memory_allocation_size,
     non_coherent_atom_size |-> props.limits.non_coherent_atom_size,
     buffer_device_address |-> features.buffer_device_address]

NeedsEnumerationAlways(required) == TRUE

\* required_extensions.iter().any(Option::is_some)
NeedsEnumeration(required) == \E j \in 1..Len(required) : is_some(required[j])

device_properties(dev, version, enumerate_answer) ==
    LET required0 == RequiredExtensions(version)
        enumerate == NeedsEnumeration(required0)
        failed == enumerate /\ enumerate_answer # "SUCCESS"
        scanned == ScanFrom(ScanStart(required0), dev.extensions, 1)
        query == IF enumerate
                 THEN QueryFlags(scanned.required)
                 ELSE [query_props |-> TRUE, query_features |-> TRUE]
        props == PropertiesQuery(dev, query.query_props)
        features == FeaturesQuery(dev, query.query_features)
    IN  /\ op = "none"
        /\ op' = "device_properties"
        /\ args' = [device |-> dev, version |-> version,
                    enumerate_result |-> enumerate_answer]
        /\ IF failed
           THEN /\ calls' = <<Call("get_physical_device_memory_properties", {}, <<>>),
                              Call("enumerate_device_extension_properties", {}, <<>>)>>
                /\ scan' = NoScan
                /\ result' = Err(enumerate_answer)
           ELSE /\ calls' =
                     <<Call("get_physical_device_memory_properties", {}, <<>>)>>
                     \o (IF enumerate
                         THEN <<Call("enumerate_device_extension_properties", {}, <<>>)>>
                         ELSE <<>>)
                     \o <<props.call>> \o features.calls
                /\ scan' = IF enumerate
                           THEN [enumerated |-> TRUE, required0 |-> required0,
                                 required |-> scanned.required,
                                 to_find |-> scanned.to_find,
                                 examined |-> scanned.examined,
                                 compared |-> scanned.compared,
                                 matched_at |-> scanned.matched_at]
                           ELSE NoScan
                /\ result' = Ok(DeviceProperties(dev.memory_properties, props, features))

(***************************************************************************)
(* The specification.  The crate keeps no state between calls: the wrapper *)
(* VulkanaliaMemoryDevice is a transparent view of the device handle and   *)
(* device_properties and the conversions are free functions.  A behaviour  *)
(* is therefore one call of one public function, with any arguments and    *)
(* any answers of the driver, from the state in which nothing has run.     *)
(***************************************************************************)
Init ==
    /\ op = "none"
    /\ args = <<>>
    /\ calls = <<>>
    /\ result = [status |-> "none", value |-> <<>>]
    /\ scan = NoScan

Next ==
    \/ op = "none" /\ \E size \in AllocationSizes, memory_type \in MemoryTypeIndices,
          flags \in AllocationFlagValues, answer \in AllocateAnswers :
          allocate_memory(size, memory_type, flags, answer)
    \/ op = "none" /\ \E memory \in MemoryHandles : deallocate_memory(memory)
    \/ op = "none" /\ \E memory \in MemoryHandles, offset \in {U64(0), U64(64)},
          size \in {U64(64), U64_MAX}, answer \in MapAnswers :
          map_memory(memory, offset, size, answer)
    \/ op = "none" /\ \E memory \in MemoryHandles : unmap_memory(memory)
    \/ op = "none" /\ \E ranges \in SeqsUpTo(RangeValues, MaxRanges), answer \in UnitAnswers :
          invalidate_memory_ranges(ranges, answer)
    \/ op = "none" /\ \E ranges \in SeqsUpTo(RangeValues, MaxRanges), answer \in UnitAnswers :
          flush_memory_ranges(ranges, answer)
    \/ op = "none" /\ \E dev \in Devices, version \in Versions, answer \in EnumerateAnswers :
          device_properties(dev, version, answer)
    \/ op = "none" /\ \E props \in VkPropertyFlagValues : MemoryPropertiesFrom(props)
    \/ op = "none" /\ \E props \in PropertyFlagValues : MemoryPropertiesTo(props)

Spec == Init /\ [][Next]_vars

(***************************************************************************)
(* Vocabulary of the properties.                                           *)
(***************************************************************************)
CallNames == [i \in 1..Len(calls) |-> calls[i].call]
CallCount(name) == Cardinality({i \in 1..Len(calls) : calls[i].call = name})
ChainOf(name) == UNION {calls[i].chain : i \in {k \in 1..Len(calls) : calls[k].call = name}}

Probed == op = "device_properties"
ProbedOk == Probed /\ result.status = "Ok"
Minor == version_minor(args.version)
Supported == {args.device.extensions[i] : i \in 1..Len(args.device.extensions)}
Enumerated == CallCount("enumerate_device_extension_properties") = 1

\* the names required before the scan
RequiredNames == {scan.required0[j][1] : j \in {k \in 1..3 : is_some(scan.required0[k])}}

\* the conditions under which the chained queries are available
ExtendedPropertiesPath ==
    Minor >= 1 \/ (Minor = 0 /\ PROPS2 \in Supported /\ MAINTENANCE3 \in Supported)
ExtendedFeaturesPath ==
    \/ Minor >= 2
    \/ Minor = 1 /\ BDA \in Supported
    \/ Minor = 0 /\ PROPS2 \in Supported /\ BDA \in Supported

\* the five recognised property bits, as one mask
RecognisedBits ==
    DEVICE_LOCAL + HOST_VISIBLE + HOST_COHERENT + HOST_CACHED + LAZILY_ALLOCATED

TranslatingOps ==
    {"allocate_memory", "map_memory", "flush_memory_ranges", "invalidate_memory_ranges"}

TypedError(variant) ==
    Err([type |-> IF op = "map_memory" THEN "DeviceMapError" ELSE "OutOfMemory",
         variant |-> variant])

(***************************************************************************)
(* C1.  For allocate_memory, map_memory, flush_memory_ranges and           *)
(* invalidate_memory_ranges and every answer of the device call:           *)
(* OUT_OF_DEVICE_MEMORY and OUT_OF_HOST_MEMORY come back as the typed      *)
(* error of the same name (OutOfMemory, or DeviceMapError for map),        *)
(* MEMORY_MAP_FAILED comes back as DeviceMapError::MapFailed from map      *)
(* only, and every other error code ends in a panic.                       *)
(***************************************************************************)
C1_ErrorTranslation ==
    (op \in TranslatingOps /\ calls # <<>>) =>
        LET code == args.device_result.code
        IN  /\ code = "OUT_OF_DEVICE_MEMORY" => result = TypedError("OutOfDeviceMemory")
            /\ code = "OUT_OF_HOST_MEMORY" => result = TypedError("OutOfHostMemory")
            /\ code = "MEMORY_MAP_FAILED" =>
                 IF op = "map_memory"
                 THEN result = TypedError("MapFailed")
                 ELSE result.status = "panic"
            /\ code \notin {"SUCCESS", "OUT_OF_DEVICE_MEMORY", "OUT_OF_HOST_MEMORY",
                            "MEMORY_MAP_FAILED"} => result.status = "panic"

\* flush answered MEMORY_MAP_FAILED, which only map translates: a panic
C1_Witness ==
    /\ op = "flush_memory_ranges"
    /\ args.device_result.code = "MEMORY_MAP_FAILED"
    /\ result.status = "panic"

(***************************************************************************)
(* C2.  device_properties picks the extension checks from the minor        *)
(* version: at minor >= 2 it does not enumerate the device extensions and  *)
(* checks none; at minor 1 it enumerates and tests membership of the       *)
(* buffer-device-address extension only; at minor 0 it tests membership of *)
(* all three extensions.                                                   *)
(***************************************************************************)
C2_ExtensionCheckPath ==
    Probed =>
        /\ Minor >= 2 => CallCount("enumerate_device_extension_properties") = 0
                         /\ scan = NoScan
        /\ Minor < 2 => Enumerated
        /\ (Minor = 1 /\ result.status = "Ok") =>
              /\ scan.enumerated
              /\ RequiredNames = {BDA}
              /\ scan.compared \subseteq {BDA}
              /\ is_none(scan.required[3]) <=> BDA \in Supported
        /\ (Minor = 0 /\ result.status = "Ok") =>
              /\ scan.enumerated
              /\ RequiredNames = {PROPS2, MAINTENANCE3, BDA}
              /\ is_none(scan.required[1]) <=> PROPS2 \in Supported
              /\ is_none(scan.required[2]) <=> MAINTENANCE3 \in Supported
              /\ is_none(scan.required[3]) <=> BDA \in Supported

\* version 1.1 on a device with maintenance3 and buffer_device_address: only
\* the latter was looked for, and it was found
C2_Witness ==
    /\ ProbedOk
    /\ Minor = 1
    /\ {MAINTENANCE3, BDA} \subseteq Supported
    /\ scan.enumerated
    /\ scan.compared = {BDA}
    /\ is_none(scan.required[3])

(***************************************************************************)
(* C3.  The chained properties query is issued exactly when minor >= 1, or *)
(* minor = 0 and both get_physical_device_properties2 and maintenance3 are *)
(* supported; otherwise the basic properties query is issued.  The chained *)
(* features query is issued exactly when minor >= 2, or minor = 1 and      *)
(* buffer_device_address is supported, or minor = 0 and both               *)
(* get_physical_device_properties2 and buffer_device_address are           *)
(* supported; otherwise no features query is issued.                       *)
(***************************************************************************)
C3_QuerySelection ==
    ProbedOk =>
        /\ IF ExtendedPropertiesPath
           THEN /\ CallCount("get_physical_device_properties2") = 1
                /\ ChainOf("get_physical_device_properties2")
                     = {"PhysicalDeviceMaintenance3Properties"}
                /\ CallCount("get_physical_device_properties") = 0
           ELSE /\ CallCount("get_physical_device_properties2") = 0
                /\ CallCount("get_physical_device_properties") = 1
        /\ IF ExtendedFeaturesPath
           THEN /\ CallCount("get_physical_device_features2") = 1
                /\ ChainOf("get_physical_device_features2")
                     = {"PhysicalDeviceBufferDeviceAddressFeatures"}
           ELSE CallCount("get_physical_device_features2") = 0

\* version 1.0 with buffer_device_address and maintenance3 but without
\* get_physical_device_properties2: the basic query and no features query
C3_Witness ==
    /\ ProbedOk
    /\ Minor = 0
    /\ {BDA, MAINTENANCE3} \subseteq Supported
    /\ PROPS2 \notin Supported
    /\ CallNames = <<"get_physical_device_memory_properties",
                     "enumerate_device_extension_properties",
                     "get_physical_device_properties">>

(***************************************************************************)
(* C4.  As claimed: the record's buffer_device_address is false whenever   *)
(* the buffer-device-address extension/feature is absent, and true         *)
(* whenever it is present and the device's features report it enabled.     *)
(* The extension/feature is present when it is core (minor >= 2) or the    *)
(* device supports the extension.                                          *)
(***************************************************************************)
BdaPresent == Minor >= 2 \/ BDA \in Supported

C4_AsClaimed ==
    ProbedOk =>
        /\ ~BdaPresent => result.value.buffer_device_address = FALSE
        /\ (BdaPresent /\ args.device.buffer_device_address # 0) =>
              result.value.buffer_device_address = TRUE

(***************************************************************************)
(* C4, amended.  The record's buffer_device_address is false whenever the  *)
(* buffer-device-address extension/feature is absent, and also at minor 0  *)
(* when get_physical_device_properties2 is not supported; in every other   *)
(* case it is true exactly when the device's features report the feature   *)
(* enabled.                                                                *)
(***************************************************************************)
C4_Amended ==
    ProbedOk =>
        /\ ~BdaPresent => result.value.buffer_device_address = FALSE
        /\ (Minor = 0 /\ PROPS2 \notin Supported) =>
              result.value.buffer_device_address = FALSE
        /\ (BdaPresent /\ ~(Minor = 0 /\ PROPS2 \notin Supported)) =>
              (result.value.buffer_device_address
                 <=> args.device.buffer_device_address # 0)

\* version 1.0, the extension supported and the feature enabled, but no
\* get_physical_device_properties2: the record says false
C4_Witness ==
    /\ ProbedOk
    /\ Minor = 0
    /\ BDA \in Supported
    /\ PROPS2 \notin Supported
    /\ args.device.buffer_device_address = 1
    /\ result.value.buffer_device_address = FALSE

(***************************************************************************)
(* C5.  The record's max_memory_allocation_size is u64::MAX when the basic *)
(* properties query was issued and the value of the chained maintenance3   *)
(* structure when the chained query was issued; in both cases              *)
(* max_memory_allocation_count and non_coherent_atom_size are those of the *)
(* limits the issued query answered.                                       *)
(***************************************************************************)
C5_Limits ==
    ProbedOk =>
        /\ CallCount("get_physical_device_properties") = 1 =>
              result.value.max_memory_allocation_size = U64_MAX
        /\ CallCount("get_physical_device_properties2") = 1 =>
              result.value.max_memory_allocation_size
                 = args.device.max_memory_allocation_size
        /\ CallCount("get_physical_device_properties")
             + CallCount("get_physical_device_properties2") = 1
        /\ result.value.max_memory_allocation_count
             = args.device.limits.max_memory_allocation_count
        /\ result.value.non_coherent_atom_size
             = args.device.limits.non_coherent_atom_size

\* the basic path was taken on a device whose maintenance3 limit is 4 GiB
C5_Witness ==
    /\ ProbedOk
    /\ CallCount("get_physical_device_properties") = 1
    /\ args.device.max_memory_allocation_size = GiB4
    /\ result.value.max_memory_allocation_size = U64_MAX
    /\ result.value.max_memory_allocation_count = 1000000

(***************************************************************************)
(* C6.  allocate_memory with a flag set that has a bit other than          *)
(* DEVICE_ADDRESS panics before any allocation request is issued; with the *)
(* empty set or exactly DEVICE_ADDRESS it issues exactly one request,      *)
(* which carries MemoryAllocateFlagsInfo if and only if DEVICE_ADDRESS was *)
(* requested.                                                              *)
(***************************************************************************)
C6_FlagsChecked ==
    op = "allocate_memory" =>
        IF args.flags \notin {0, DEVICE_ADDRESS}
        THEN result.status = "panic" /\ calls = <<>>
        ELSE /\ Len(calls) = 1
             /\ calls[1].call = "allocate_memory"
             /\ "MemoryAllocateFlagsInfo" \in calls[1].chain
                  <=> args.flags = DEVICE_ADDRESS

(***************************************************************************)
(* C7.  device_properties returns an error only when the extension         *)
(* enumeration fails; the error is that call's error code, no properties   *)
(* or features query follows and no record is returned.  In every other    *)
(* run it returns a complete record.  At minor >= 2 it never returns an    *)
(* error.                                                                  *)
(***************************************************************************)
RecordFields ==
    {"memory_types", "memory_heaps", "max_memory_allocation_count",
     "max_memory_allocation_size", "non_coherent_atom_size", "buffer_device_address"}

C7_AllOrNothing ==
    Probed =>
        /\ result.status \in {"Ok", "Err"}
        /\ result.status = "Err" <=> (Enumerated /\ args.enumerate_result # "SUCCESS")
        /\ result.status = "Err" =>
              /\ result.value = args.enumerate_result
              /\ CallNames = <<"get_physical_device_memory_properties",
                               "enumerate_device_extension_properties">>
        /\ result.status = "Ok" => DOMAIN result.value = RecordFields
        /\ Minor >= 2 => result.status = "Ok"

\* version 1.0, the enumeration answered OUT_OF_HOST_MEMORY: that error
C7_Witness ==
    /\ Probed
    /\ Minor = 0
    /\ args.enumerate_result = "OUT_OF_HOST_MEMORY"
    /\ result = Err("OUT_OF_HOST_MEMORY")

(***************************************************************************)
(* C8.  Either conversion returns exactly the recognised bits of its       *)
(* input (device-local, host-visible, host-coherent, host-cached,          *)
(* lazily-allocated), dropping every other bit; so for a set of recognised *)
(* flags converting there and back gives the set again, in both            *)
(* directions.                                                             *)
(***************************************************************************)
C8_FlagRoundTrip ==
    /\ op = "memory_properties_from" =>
          /\ result.value = BitAnd(args.props, RecognisedBits)
          /\ memory_properties_to(result.value) = BitAnd(args.props, RecognisedBits)
          /\ args.props = BitAnd(args.props, RecognisedBits) =>
                memory_properties_to(result.value) = args.props
    /\ op = "memory_properties_to" =>
          /\ result.value = BitAnd(args.props, RecognisedBits)
          /\ memory_properties_from(result.value) = BitAnd(args.props, RecognisedBits)
          /\ args.props = BitAnd(args.props, RecognisedBits) =>
                memory_properties_from(result.value) = args.props

\* host-coherent and host-cached with the unrecognised bit 32: the bit is gone
C8_Witness ==
    /\ op = "memory_properties_from"
    /\ args.props = VK_HOST_COHERENT + VK_HOST_CACHED + 32
    /\ result.value = HOST_COHERENT + HOST_CACHED

(***************************************************************************)
(* C9.  In every record device_properties returns, the memory types and    *)
(* the heaps have the lengths, the order, the heap indices and the sizes   *)
(* of the device's memory-properties report, and every memory type's heap  *)
(* index is below the number of heaps of the record.                       *)
(***************************************************************************)
C9_MemoryLayout ==
    ProbedOk =>
        LET mp == args.device.memory_properties
            rec == result.value
        IN  /\ Len(rec.memory_types) = mp.memory_type_count
            /\ Len(rec.memory_heaps) = mp.memory_heap_count
            /\ \A i \in 1..Len(rec.memory_types) :
                  /\ rec.memory_types[i].heap = mp.memory_types[i].heap_index
                  /\ rec.memory_types[i].heap < Len(rec.memory_heaps)
            /\ \A i \in 1..Len(rec.memory_heaps) :
                  rec.memory_heaps[i].size = mp.memory_heaps[i].size

\* the end-to-end example: two heaps, three types, all kept as reported
C9_Witness ==
    /\ ProbedOk
    /\ args.device.memory_properties = EndToEndReport
    /\ result.value.memory_types =
         <<[props |-> DEVICE_LOCAL, heap |-> 0],
           [props |-> HOST_VISIBLE + HOST_COHERENT, heap |-> 1],
           [props |-> HOST_VISIBLE + HOST_CACHED + DEVICE_LOCAL, heap |-> 1]>>
    /\ result.value.memory_heaps = <<[size |-> MiB256], [size |-> GiB4]>>

(***************************************************************************)
(* C10.  The extension scan exits early: at every minor version below 2,   *)
(* once every still-required name has been matched, no later entry of the  *)
(* enumerated list is run through the loop over the required names.        *)
(***************************************************************************)
Max(S) == CHOOSE x \in S : \A y \in S : y <= x

AllFound == \A j \in 1..3 : is_none(scan.required[j])
LastMatch == Max({scan.matched_at[j] : j \in 1..3})

C10_EarlyExit ==
    (Probed /\ scan.enumerated /\ AllFound) =>
        \A i \in scan.examined : i <= LastMatch

=============================================================================
